---- MODULE Spec2Model ----
(***************************************************************************)
(* Model of app.py of box-pdf-merger: the /merge-pdfs request handler      *)
(* (merge_pdfs_endpoint), the Box session set-up (initialize_box_client)   *)
(* and the merge orchestrator (merge_box_pdfs_backend_logic) with the Box  *)
(* and PDF.co helper functions it calls.  One run is followed from its     *)
(* entry to its return; every remote call is one step whose response is    *)
(* chosen by the environment.  SpecAtOnce follows two requests served at   *)
(* the same time, each with its own locals.                                *)
(***************************************************************************)
EXTENDS Integers, Sequences, FiniteSets, TLC

VARIABLES
    jwtConfig,      \* GLOBAL_BOX_JWT_CONFIG after module load
    apiKeyGlobal,   \* GLOBAL_PDF_CO_API_KEY after module load
    pc,             \* position of the run
    caller,         \* "none" | "endpoint" | "direct": who invoked the orchestrator
    folderId,       \* box_folder_id
    outName,        \* merged_file_name (sequence of characters)
    apiKey,         \* pdf_co_api_key argument of the orchestrator
    client,         \* box_client (session handle) or None
    files,          \* box_pdf_files
    idx,            \* position of the for loop over box_pdf_files (1-based)
    urls,           \* pdf_co_source_urls
    jobId,          \* job_id
    status,         \* status (polling loop variable)
    now,            \* time.time(), measured from the return of merge_pdfs_pdf_co
    startTime,      \* start_time
    uploadedId,     \* uploaded_box_file.id
    result,         \* (success, message, merged_pdf_url) returned by the orchestrator
    rendered,       \* what merge_pdfs_endpoint hands to the template
    calls,          \* number of invocations of each gateway call in this run
    hist,           \* observations of the run used to state properties
    atLoad,         \* the two globals as lines 20-44 left them
    runs            \* the local state of each of two requests served at once

vars == <<jwtConfig, apiKeyGlobal, pc, caller, folderId, outName, apiKey, client,
          files, idx, urls, jobId, status, now, startTime, uploadedId, result,
          rendered, calls, hist, atLoad, runs>>

\* the variables of the run followed alone
runVars == <<pc, caller, folderId, outName, apiKey, client, files, idx, urls, jobId,
             status, now, startTime, uploadedId, result, rendered, calls, hist>>

-----------------------------------------------------------------------------
(* Bounds *)

\* largest time a single conversion-service call may take, beyond the sleep
MaxLatency == 1

\* most status checks one request makes while two requests are followed
MaxChecksEach == 1

-----------------------------------------------------------------------------
(* Program constants *)

timeout_seconds == 300
SleepSeconds == 5

\* Python's None, for the string-valued optionals of the program
None == "<None>"

\* falsy strings: None and ''
Falsy(s) == s = None \/ s = ""

-----------------------------------------------------------------------------
(* Strings whose characters matter: file names *)

LowerChar(c) ==
    CASE c = "P" -> "p"
      [] c = "D" -> "d"
      [] c = "F" -> "f"
      [] c = "A" -> "a"
      [] c = "B" -> "b"
      [] OTHER -> c

\* str.lower()
Lower(s) == [i \in 1..Len(s) |-> LowerChar(s[i])]

\* str.endswith(suffix)
EndsWith(s, suffix) ==
    /\ Len(s) >= Len(suffix)
    /\ SubSeq(s, Len(s) - Len(suffix) + 1, Len(s)) = suffix

DotPdf == <<".", "p", "d", "f">>

\* name.lower().endswith('.pdf')
IsPdfName(name) == EndsWith(Lower(name), DotPdf)

A_pdf == <<"a", ".", "p", "d", "f">>
B_pdf == <<"b", ".", "p", "d", "f">>
C_PDF == <<"c", ".", "P", "D", "F">>
D_Pdf == <<"d", ".", "P", "d", "f">>
Notes_txt == <<"n", ".", "t", "x", "t">>
Pdf_bak == <<"p", "d", "f", ".", "b">>
Out_pdf == <<"o", ".", "p", "d", "f">>
Out_PDF == <<"o", ".", "P", "D", "F">>
Out_txt == <<"o", ".", "t", "x", "t">>
Out_pdfx == <<"o", ".", "p", "d", "f", "x">>
Short == <<"p", "d", "f">>

\* request.form.get('merged_file_name', "Merged_Box_PDF.pdf")
DefaultOutName == <<"M", ".", "p", "d", "f">>

-----------------------------------------------------------------------------
(* Messages returned or rendered by the program *)

MsgFolderRequired == "Error: Box Folder ID is required."
MsgMustEndPdf == "Error: Merged file name must end with .pdf"
MsgNoJwt == "Error: Backend configuration incomplete. Box JWT config not loaded. Check environment variable 'BOX_JWT_CONFIG_JSON'."
MsgNoKey == "Error: Backend configuration incomplete. PDF.co API key not loaded. Check environment variable 'PDF_CO_API_KEY'."
MsgInitFailed(e) == "Error: Box client initialization failed: " \o e

MsgNoPdfs == "No PDF files found in the specified Box folder or an error occurred during listing."
MsgLessThanTwo == "Less than two PDF files found. At least two PDFs are required for merging."
MsgNonePrepared == "No PDF files were successfully prepared for merging with PDF.co."
MsgNoJobId == "Failed to initiate PDF merge on PDF.co (no job ID)."
MsgTimedOut == "PDF.co merge job timed out. Please try again."
MsgJobStatus(s) == "PDF.co merge job " \o s \o "."
MsgNotSuccessful == "PDF.co merge job did not complete successfully."
MsgMerged == "PDFs merged and uploaded successfully to Box as '<merged_file_name>'."
MsgNoLink == "PDFs merged and uploaded to Box, but failed to create a shareable link for '<merged_file_name>'. Check your Box folder!"
MsgUploadFailed == "Failed to upload merged PDF back to Box."
MsgException(e) == "An error occurred during the process: " \o e

-----------------------------------------------------------------------------
(* Secrets loaded at import time (lines 20-44) *)

\* GLOBAL_BOX_JWT_CONFIG = None
NoConfig == [isNone |-> TRUE, empty |-> FALSE, settings |-> "none",
             enterpriseID |-> None, userID |-> None]

\* json.loads('{}')
EmptyConfig == [isNone |-> FALSE, empty |-> TRUE, settings |-> "missing",
                enterpriseID |-> None, userID |-> None]

\* a parsed descriptor: settings says whether boxAppSettings/appAuth hold the
\* keys read at lines 193-197; a subject of None stands for an absent key
Descriptor(settings, ent, usr) ==
    [isNone |-> FALSE, empty |-> FALSE, settings |-> settings,
     enterpriseID |-> ent, userID |-> usr]

Descriptors ==
    { Descriptor("ok", "E1", None),
      Descriptor("ok", None, "U1"),
      Descriptor("ok", "", "U1"),
      Descriptor("ok", "E1", "U1"),
      Descriptor("ok", None, None),
      Descriptor("ok", "", ""),
      Descriptor("missing", "E1", None) }

\* contents of the environment variable BOX_JWT_CONFIG_JSON
JwtEnvValues ==
    { [raw |-> "absent", value |-> NoConfig],
      [raw |-> "empty", value |-> NoConfig],
      [raw |-> "malformed", value |-> NoConfig],
      [raw |-> "json", value |-> EmptyConfig] }
    \cup { [raw |-> "json", value |-> d] : d \in Descriptors }

\* contents of the environment variable PDF_CO_API_KEY (None: not set)
KeyEnvValues == {None, "", "key-1"}

\* lines 23-44: json.loads raising resets both globals to None
LoadSecrets(jwtEnv, keyEnv) ==
    IF jwtEnv.raw = "malformed"
    THEN [jwt |-> NoConfig, key |-> None]
    ELSE [jwt |-> IF jwtEnv.raw = "json" THEN jwtEnv.value ELSE NoConfig,
          key |-> keyEnv]

\* truth value of GLOBAL_BOX_JWT_CONFIG (None and {} are falsy)
TruthyConfig(cfg) == ~cfg.isNone /\ ~cfg.empty

-----------------------------------------------------------------------------
(* initialize_box_client *)

\* names bound at module level: the imports of lines 5-13 and the module's
\* own assignments and functions
ModuleNames ==
    { "Flask", "request", "jsonify", "render_template_string", "redirect",
      "url_for", "os", "json", "time", "BytesIO", "requests", "boxsdk",
      "traceback", "app", "GLOBAL_BOX_JWT_CONFIG", "GLOBAL_PDF_CO_API_KEY",
      "HTML_TEMPLATE", "initialize_box_client", "list_pdf_files_in_box_folder",
      "download_box_file", "upload_file_to_box", "create_box_shared_link",
      "upload_file_to_pdf_co", "merge_pdfs_pdf_co", "check_pdf_co_job_status",
      "merge_box_pdfs_backend_logic", "index", "merge_pdfs_endpoint" }

\* global name lookup
NameDefined(n) == n \in ModuleNames

\* SubjectOf testing only that the key is present, not that its value is truthy
SubjectOf_KeyPresent(cfg) ==
    IF cfg.enterpriseID # None THEN "enterprise"
    ELSE IF cfg.userID # None THEN "user"
    ELSE "none"

\* the subject branch of lines 217-226
SubjectOf(cfg) ==
    IF ~Falsy(cfg.enterpriseID) THEN "enterprise"
    ELSE IF ~Falsy(cfg.userID) THEN "user"
    ELSE "none"

\* the session handle Client(auth) stands for
Handle(cfg) ==
    IF SubjectOf(cfg) = "enterprise" THEN "client:" \o cfg.enterpriseID
    ELSE "client:" \o cfg.userID

\* initialize_box_client(jwt_config); jwtAuthOk: boxsdk.JWTAuth(**auth_params)
\* accepts the key material.  built counts the JWTAuth constructions attempted.
InitializeBoxClient(cfg, jwtAuthOk) ==
    IF cfg.settings # "ok"
    THEN [ok |-> FALSE, handle |-> None, built |-> 0, error |-> "'boxAppSettings'"]
    ELSE IF SubjectOf(cfg) = "none"
    THEN [ok |-> FALSE, handle |-> None, built |-> 0,
          error |-> "Neither 'enterpriseID' nor 'userID' found in BOX_JWT_CONFIG. Cannot determine authentication type."]
    ELSE IF ~jwtAuthOk
    THEN [ok |-> FALSE, handle |-> None, built |-> 1, error |-> "JWTAuth rejected the key"]
    ELSE IF ~NameDefined("Client")
    THEN [ok |-> FALSE, handle |-> None, built |-> 1, error |-> "name 'Client' is not defined"]
    ELSE [ok |-> TRUE, handle |-> Handle(cfg), built |-> 1, error |-> ""]

-----------------------------------------------------------------------------
(* merge_pdfs_endpoint *)

FolderIdInputs == {None, "", "123"}
OutNameInputs == {DefaultOutName, Out_pdf, Out_PDF, Out_txt, Out_pdfx, Short, <<>>}

\* RequestError without the test of line 518
RequestError_NoKeyTest(fid, name, cfg, key) ==
    IF Falsy(fid) THEN MsgFolderRequired
    ELSE IF ~IsPdfName(name) THEN MsgMustEndPdf
    ELSE IF ~TruthyConfig(cfg) THEN MsgNoJwt
    ELSE ""

\* lines 509-519: the first failing check, or "" when all four pass
RequestError(fid, name, cfg, key) ==
    IF Falsy(fid) THEN MsgFolderRequired
    ELSE IF ~IsPdfName(name) THEN MsgMustEndPdf
    ELSE IF ~TruthyConfig(cfg) THEN MsgNoJwt
    ELSE IF Falsy(key) THEN MsgNoKey
    ELSE ""

\* render_template_string(HTML_TEMPLATE, message=..., merged_pdf_url=...)
Render(message, link) == [message |-> message, link |-> link]

\* line 530
RenderOutcome(success, message, link) ==
    Render(message, IF success THEN link ELSE None)

-----------------------------------------------------------------------------
(* Storage backend: folder contents and list_pdf_files_in_box_folder *)

Item(type, id, name) == [type |-> type, id |-> id, name |-> name]

\* what folder.get_items(limit=100) may yield
FolderContents ==
    { <<>>,
      <<Item("file", "9", Notes_txt), Item("folder", "8", A_pdf)>>,
      <<Item("file", "1", A_pdf)>>,
      <<Item("file", "1", A_pdf), Item("file", "2", B_pdf), Item("file", "9", Notes_txt)>>,
      <<Item("file", "3", C_PDF), Item("folder", "8", A_pdf),
        Item("file", "7", Pdf_bak), Item("file", "4", D_Pdf)>> }

\* IsPdfItem comparing the name without lower()
IsPdfItem_CaseSensitive(item) == item.type = "file" /\ EndsWith(item.name, DotPdf)

\* line 252
IsPdfItem(item) == item.type = "file" /\ IsPdfName(item.name)

RECURSIVE ListPdfFiles(_)
\* lines 249-254: the for loop appending {"id", "name"} of each PDF file
ListPdfFiles(items) ==
    IF items = <<>> THEN <<>>
    ELSE LET rest == ListPdfFiles(Tail(items))
         IN IF IsPdfItem(Head(items))
            THEN <<[id |-> Head(items).id, name |-> Head(items).name]>> \o rest
            ELSE rest

\* presign_data['url'] of a staged file
StagedUrl(file) == "https://pdf.co/tmp/" \o file.id

UploadedIds == {"f100", "f200"}
SharedLinks == {"https://box.com/s/x", "https://box.com/s/y"}
JobIds == {"", "job-1"}
PollResponses == {"working", "success", "failed", "aborted", None, "unknown"}

-----------------------------------------------------------------------------
(* merge_box_pdfs_backend_logic: the local code between two remote calls *)

NoOutcome == [success |-> FALSE, message |-> "", link |-> None]

\* continue at position p
Goto(p) == [pc |-> p, out |-> NoOutcome]

\* return success, message, merged_pdf_url
Ret(success, message, link) ==
    [pc |-> "returned", out |-> [success |-> success, message |-> message, link |-> link]]

\* OnException with the handler letting the exception out of the function
OnException_Reraise(e) == Goto("escaped")

\* lines 488-490
OnException(e) == Ret(FALSE, MsgException(e), None)

\* AfterListing without the test of line 419
AfterListing_NoMinimum(fs) ==
    IF fs = <<>> THEN Ret(FALSE, MsgNoPdfs, None) ELSE Goto("download")

\* lines 417-421
AfterListing(fs) ==
    IF fs = <<>> THEN Ret(FALSE, MsgNoPdfs, None)
    ELSE IF Len(fs) < 2 THEN Ret(FALSE, MsgLessThanTwo, None)
    ELSE Goto("download")

\* AfterFile with the test of line 436 inside the loop body
AfterFile_TestInsideLoop(i, n, us) ==
    IF us = <<>> THEN Ret(FALSE, MsgNonePrepared, None)
    ELSE IF i < n THEN Goto("download")
    ELSE Goto("submit")

\* AfterFile without the test of line 436
AfterFile_NoEmptyTest(i, n, us) ==
    IF i < n THEN Goto("download") ELSE Goto("submit")

\* lines 424, 433-438: the next loop iteration, or the code after the loop
AfterFile(i, n, us) ==
    IF i < n THEN Goto("download")
    ELSE IF us = <<>> THEN Ret(FALSE, MsgNonePrepared, None)
    ELSE Goto("submit")

\* AppendStaged putting the new URL in front (insert(0, ...) for append)
AppendStaged_InFront(us, url) == IF ~Falsy(url) THEN <<url>> \o us ELSE us

\* lines 429-432
AppendStaged(us, url) == IF ~Falsy(url) THEN Append(us, url) ELSE us

\* AfterSubmit submitting again when no job id came back
AfterSubmit_Again(job) ==
    IF Falsy(job) THEN Goto("submit") ELSE Goto("loop")

\* lines 441-442
AfterSubmit(job) ==
    IF Falsy(job) THEN Ret(FALSE, MsgNoJobId, None) ELSE Goto("loop")

\* TimedOut with the operands of the subtraction exchanged
TimedOut_Exchanged(t, t0) == t0 - t > timeout_seconds

\* TimedOut allowing one more sleep interval than the budget
TimedOut_OneIntervalLate(t, t0) == t - t0 > timeout_seconds + SleepSeconds

\* line 451
TimedOut(t, t0) == t - t0 > timeout_seconds

\* lines 451-453, entered with status == "working"
LoopTop(t, t0) ==
    IF TimedOut(t, t0) THEN Ret(FALSE, MsgTimedOut, None) ELSE Goto("check")

\* AfterLoop rejecting the known bad statuses instead of requiring "success"
AfterLoop_RejectKnown(st) ==
    IF st \in {"working", "failed", "aborted"}
    THEN Ret(FALSE, MsgNotSuccessful, None)
    ELSE Goto("fetch")

\* lines 462-463
AfterLoop(st) ==
    IF st # "success" THEN Ret(FALSE, MsgNotSuccessful, None) ELSE Goto("fetch")

\* AfterCheck without the break of line 458, the loop running on "success" too
AfterCheck_NoBreak(st) ==
    IF st \in {"failed", "aborted"} THEN Ret(FALSE, MsgJobStatus(st), None)
    ELSE IF st \in {"working", "success"} THEN Goto("loop")
    ELSE AfterLoop(st)

\* AfterCheck polling until "success" or the budget is spent, whatever else
\* the service answers (while status != "success", no test of line 459)
AfterCheck_UntilSuccess(st) ==
    IF st = "success" THEN AfterLoop(st) ELSE Goto("loop")

\* AfterCheck with line 459 testing "failed" alone
AfterCheck_FailedOnly(st) ==
    IF st = "success" THEN AfterLoop(st)
    ELSE IF st = "failed" THEN Ret(FALSE, MsgJobStatus(st), None)
    ELSE IF st = "working" THEN Goto("loop")
    ELSE AfterLoop(st)

\* lines 456-460 and the while test of line 450
AfterCheck(st) ==
    IF st = "success" THEN AfterLoop(st)
    ELSE IF st \in {"failed", "aborted"} THEN Ret(FALSE, MsgJobStatus(st), None)
    ELSE IF st = "working" THEN Goto("loop")
    ELSE AfterLoop(st)

\* lines 474, 485-486
AfterUpload(fileId) ==
    IF ~Falsy(fileId) THEN Goto("link") ELSE Ret(FALSE, MsgUploadFailed, None)

\* lines 302-310: the value create_box_shared_link returns
SharedLinkResult(raised, url) == IF raised THEN None ELSE url

\* AfterLink returning the initial value of merged_box_file_url (line 413)
AfterLink_InitialValue(url) ==
    IF ~Falsy(url) THEN Ret(TRUE, MsgMerged, None) ELSE Ret(FALSE, MsgNoLink, None)

\* lines 481-484
AfterLink(url) ==
    IF ~Falsy(url) THEN Ret(TRUE, MsgMerged, url) ELSE Ret(FALSE, MsgNoLink, None)

\* FetchStep without raise_for_status: the response is used whatever it is
FetchStep_Unchecked(ok) == Goto("upload")

\* lines 466-469: a transport error or raise_for_status goes to line 488
FetchStep(ok) ==
    IF ok THEN Goto("upload") ELSE OnException("merged PDF download failed")

\* UploadStep with the exception of upload_file_to_box dropped
UploadStep_Swallow(raised, fileId) ==
    IF raised THEN Goto("link") ELSE AfterUpload(fileId)

\* lines 472-474: upload_file_to_box re-raises (line 285) to line 488
UploadStep(raised, fileId) ==
    IF raised THEN OnException("Box upload failed") ELSE AfterUpload(fileId)

\* LinkStep with create_box_shared_link re-raising like the other helpers
LinkStep_Reraise(raised, url) ==
    IF raised THEN OnException("Box shared link failed") ELSE AfterLink(url)

\* lines 479-484: create_box_shared_link and the test of its result
LinkStep(raised, url) == AfterLink(SharedLinkResult(raised, url))

-----------------------------------------------------------------------------
(* State *)

CallNames == {"auth", "jwtauth", "list", "download", "stage", "submit", "poll",
              "fetch", "upload", "link"}

\* an exception raised by a call, where a value was expected
Raised == "<raised>"

NoHistory ==
    [authAccepted |-> FALSE, \* boxsdk.JWTAuth accepted the key material
     listed |-> "no",       \* "no" | "raised" | "returned": the listing call
     items |-> <<>>,        \* what folder.get_items yielded to the listing call
     sleeps |-> 0,          \* time.sleep(5) calls
     working |-> 0,         \* status checks that returned "working"
     lastPoll |-> None,     \* what the last status check returned (or Raised)
     pollAt |-> 0,          \* time at which the last status check was issued
     downloads |-> <<>>,    \* ids passed to download_box_file, in order
     stages |-> <<>>,       \* ids of the files passed to upload_file_to_pdf_co
     skipped |-> 0,         \* files whose download or staging failed
     failedDownloads |-> <<>>, \* ids whose download_box_file raised
     submitted |-> <<>>,    \* file_urls passed to merge_pdfs_pdf_co
     fetched |-> "no",      \* "no" | "ok" | "raised": the fetch of the merged bytes
     linkTarget |-> None,   \* file_id passed to create_box_shared_link
     linkReturned |-> None] \* what the backend answered to the link request

\* two requests in service at the same time (threads of one process)
Requests == {"r1", "r2"}

\* the locals of one request before merge_pdfs_endpoint or the orchestrator
\* has run a line; used and trace are observations
NoRun ==
    [pc |-> "request", caller |-> "none", folderId |-> None, outName |-> <<>>,
     apiKey |-> None, client |-> None, files |-> <<>>, idx |-> 0, urls |-> <<>>,
     jobId |-> None, status |-> None, uploadedId |-> None,
     result |-> NoOutcome, rendered |-> Render(None, None),
     checks |-> 0,     \* status checks made
     used |-> {},      \* session handles passed to the storage helpers
     trace |-> <<>>]   \* what the environment answered to this request's calls

Init ==
    /\ \E jwtEnv \in JwtEnvValues, keyEnv \in KeyEnvValues :
          LET loaded == LoadSecrets(jwtEnv, keyEnv)
          IN /\ jwtConfig = loaded.jwt
             /\ apiKeyGlobal = loaded.key
    /\ pc = "request"
    /\ caller = "none"
    /\ folderId = None
    /\ outName = <<>>
    /\ apiKey = None
    /\ client = None
    /\ files = <<>>
    /\ idx = 0
    /\ urls = <<>>
    /\ jobId = None
    /\ status = None
    /\ now = 0
    /\ startTime = 0
    /\ uploadedId = None
    /\ result = NoOutcome
    /\ rendered = Render(None, None)
    /\ calls = [c \in CallNames |-> 0]
    /\ hist = NoHistory
    /\ atLoad = [jwt |-> jwtConfig, key |-> apiKeyGlobal]
    /\ runs = [r \in Requests |-> NoRun]

Count(c) == [calls EXCEPT ![c] = @ + 1]

\* take the step the local code decided on; a return of the orchestrator to
\* merge_pdfs_endpoint is rendered by line 530
Apply(step) ==
    /\ pc' = step.pc
    /\ IF step.pc = "returned"
       THEN /\ result' = step.out
            /\ rendered' = IF caller = "endpoint"
                           THEN RenderOutcome(step.out.success, step.out.message, step.out.link)
                           ELSE rendered
       ELSE UNCHANGED <<result, rendered>>

-----------------------------------------------------------------------------
(* Entry points *)

\* POST /merge-pdfs, lines 506-528
MergePdfsEndpoint ==
    /\ pc = "request"
    /\ \E fid \in FolderIdInputs, name \in OutNameInputs, jwtAuthOk \in BOOLEAN :
          LET err == RequestError(fid, name, jwtConfig, apiKeyGlobal)
              init == InitializeBoxClient(jwtConfig, jwtAuthOk)
          IN /\ folderId' = fid
             /\ outName' = name
             /\ caller' = "endpoint"
             /\ IF err # ""
                THEN /\ pc' = "responded"
                     /\ rendered' = Render(err, None)
                     /\ UNCHANGED <<calls, client, apiKey, hist>>
                ELSE /\ calls' = [calls EXCEPT !["auth"] = @ + 1, !["jwtauth"] = @ + init.built]
                     /\ hist' = [hist EXCEPT !.authAccepted = (init.built = 1 /\ jwtAuthOk)]
                     /\ IF ~init.ok
                        THEN /\ pc' = "responded"
                             /\ rendered' = Render(MsgInitFailed(init.error), None)
                             /\ UNCHANGED <<client, apiKey>>
                        ELSE /\ pc' = "list"
                             /\ client' = init.handle
                             /\ apiKey' = apiKeyGlobal
                             /\ UNCHANGED rendered
    /\ UNCHANGED <<runs, atLoad, jwtConfig, apiKeyGlobal, files, idx, urls, jobId, status, now,
                   startTime, uploadedId, result>>

\* merge_box_pdfs_backend_logic(box_folder_id, box_client, pdf_co_api_key,
\* merged_file_name) invoked with a session handle by an importer of the
\* module.  The orchestrator reads no global, so this entry is followed in
\* the process whose two secrets loaded.
DirectCall ==
    /\ pc = "request"
    /\ jwtConfig = Descriptor("ok", "E1", None)
    /\ apiKeyGlobal = "key-1"
    /\ \E key \in {None, "key-2"} :
          /\ apiKey' = key
    /\ caller' = "direct"
    /\ client' = "client:direct"
    /\ folderId' = "123"
    /\ outName' = Out_pdf
    /\ pc' = "list"
    /\ UNCHANGED <<runs, atLoad, jwtConfig, apiKeyGlobal, files, idx, urls, jobId, status, now,
                   startTime, uploadedId, result, rendered, calls, hist>>

-----------------------------------------------------------------------------
(* merge_box_pdfs_backend_logic, one step per remote call *)

\* line 416: list_pdf_files_in_box_folder, then lines 417-423
ListFiles ==
    /\ pc = "list"
    /\ \E raised \in BOOLEAN, items \in FolderContents :
          LET fs == IF raised THEN <<>> ELSE ListPdfFiles(items)
              step == IF raised THEN OnException("Box listing failed")
                      ELSE AfterListing(fs)
          IN /\ files' = fs
             /\ idx' = IF step.pc = "download" THEN 1 ELSE idx
             /\ hist' = [hist EXCEPT !.listed = IF raised THEN "raised" ELSE "returned",
                                     !.items = IF raised THEN <<>> ELSE items]
             /\ Apply(step)
    /\ urls' = <<>>
    /\ calls' = Count("list")
    /\ UNCHANGED <<runs, atLoad, jwtConfig, apiKeyGlobal, caller, folderId, outName, apiKey, client,
                   jobId, status, now, startTime, uploadedId>>

\* line 427: download_box_file; a failure is caught at line 433
Download ==
    /\ pc = "download"
    /\ calls' = Count("download")
    /\ \E ok \in BOOLEAN :
          IF ok
          THEN /\ pc' = "stage"
               /\ hist' = [hist EXCEPT !.downloads = Append(@, files[idx].id)]
               /\ UNCHANGED <<idx, result, rendered>>
          ELSE LET step == AfterFile(idx, Len(files), urls)
               IN /\ hist' = [hist EXCEPT !.downloads = Append(@, files[idx].id),
                                          !.failedDownloads = Append(@, files[idx].id),
                                          !.skipped = @ + 1]
                  /\ idx' = IF step.pc = "download" THEN idx + 1 ELSE idx
                  /\ Apply(step)
    /\ UNCHANGED <<runs, atLoad, jwtConfig, apiKeyGlobal, caller, folderId, outName, apiKey, client,
                   files, urls, jobId, status, now, startTime, uploadedId>>

\* upload_file_to_pdf_co: lines 318-319 raise without a key, any HTTP or
\* presign error raises, otherwise presign_data['url'] is returned
StageResult(key, resp) == IF Falsy(key) THEN Raised ELSE resp

\* line 428: upload_file_to_pdf_co, then lines 429-438
Stage ==
    /\ pc = "stage"
    /\ calls' = Count("stage")
    /\ \E resp \in {Raised, "", StagedUrl(files[idx])} :
          LET r == StageResult(apiKey, resp)
              us == IF r = Raised THEN urls ELSE AppendStaged(urls, r)
              step == AfterFile(idx, Len(files), us)
          IN /\ urls' = us
             /\ hist' = [hist EXCEPT !.stages = Append(@, files[idx].id),
                                     !.skipped = IF us = urls THEN @ + 1 ELSE @]
             /\ idx' = IF step.pc = "download" THEN idx + 1 ELSE idx
             /\ Apply(step)
    /\ UNCHANGED <<runs, atLoad, jwtConfig, apiKeyGlobal, caller, folderId, outName, apiKey, client,
                   files, jobId, status, now, startTime, uploadedId>>

\* line 440: merge_pdfs_pdf_co, then lines 441-448
Submit ==
    /\ pc = "submit"
    /\ calls' = Count("submit")
    /\ hist' = [hist EXCEPT !.submitted = urls]
    /\ \E resp \in JobIds \cup {Raised} :
          LET r == IF Falsy(apiKey) THEN Raised ELSE resp
              step == IF r = Raised THEN OnException("PDF.co merge initiation error")
                      ELSE AfterSubmit(r)
          IN /\ jobId' = IF r = Raised THEN jobId ELSE r
             /\ status' = IF step.pc = "loop" THEN "working" ELSE status
             /\ startTime' = IF step.pc = "loop" THEN now ELSE startTime
             /\ Apply(step)
    /\ UNCHANGED <<runs, atLoad, jwtConfig, apiKeyGlobal, caller, folderId, outName, apiKey, client,
                   files, idx, urls, now, uploadedId>>

\* lines 450-453: the loop is entered with status "working"; the budget test,
\* then time.sleep(5)
PollLoopTop ==
    /\ pc = "loop"
    /\ LET step == LoopTop(now, startTime)
       IN /\ now' = IF step.pc = "check" THEN now + SleepSeconds ELSE now
          /\ hist' = IF step.pc = "check" THEN [hist EXCEPT !.sleeps = @ + 1] ELSE hist
          /\ Apply(step)
    /\ UNCHANGED <<runs, atLoad, jwtConfig, apiKeyGlobal, caller, folderId, outName, apiKey, client,
                   files, idx, urls, jobId, status, startTime, uploadedId, calls>>

\* line 454: check_pdf_co_job_status, then lines 455-463
CheckStatus ==
    /\ pc = "check"
    /\ calls' = Count("poll")
    /\ \E resp \in PollResponses \cup {Raised}, d \in 0..MaxLatency :
          LET r == IF Falsy(apiKey) THEN Raised ELSE resp
              step == IF r = Raised THEN OnException("PDF.co job status check failed")
                      ELSE AfterCheck(r)
          IN /\ now' = now + d
             /\ status' = IF r = Raised THEN status ELSE r
             /\ hist' = [hist EXCEPT !.lastPoll = r,
                                     !.pollAt = now,
                                     !.working = IF r = "working" THEN @ + 1 ELSE @]
             /\ Apply(step)
    /\ UNCHANGED <<runs, atLoad, jwtConfig, apiKeyGlobal, caller, folderId, outName, apiKey, client,
                   files, idx, urls, jobId, startTime, uploadedId>>

\* lines 466-468: requests.get(result url) and raise_for_status
FetchResult ==
    /\ pc = "fetch"
    /\ calls' = Count("fetch")
    /\ \E ok \in BOOLEAN :
          /\ hist' = [hist EXCEPT !.fetched = IF ok THEN "ok" ELSE "raised"]
          /\ Apply(FetchStep(ok))
    /\ UNCHANGED <<runs, atLoad, jwtConfig, apiKeyGlobal, caller, folderId, outName, apiKey, client,
                   files, idx, urls, jobId, status, now, startTime, uploadedId>>

\* line 472: upload_file_to_box (re-raises at line 285), then line 474
Upload ==
    /\ pc = "upload"
    /\ calls' = Count("upload")
    /\ \E resp \in UploadedIds \cup {Raised} :
          /\ uploadedId' = IF resp = Raised THEN uploadedId ELSE resp
          /\ Apply(UploadStep(resp = Raised, resp))
    /\ UNCHANGED <<runs, atLoad, jwtConfig, apiKeyGlobal, caller, folderId, outName, apiKey, client,
                   files, idx, urls, jobId, status, now, startTime, hist>>

\* line 479: create_box_shared_link, then lines 481-484
Link ==
    /\ pc = "link"
    /\ calls' = Count("link")
    /\ \E resp \in SharedLinks \cup {None, Raised} :
          /\ hist' = [hist EXCEPT !.linkTarget = uploadedId, !.linkReturned = resp]
          /\ Apply(LinkStep(resp = Raised, resp))
    /\ UNCHANGED <<runs, atLoad, jwtConfig, apiKeyGlobal, caller, folderId, outName, apiKey, client,
                   files, idx, urls, jobId, status, now, startTime, uploadedId>>

Next ==
    \/ MergePdfsEndpoint
    \/ DirectCall
    \/ ListFiles
    \/ Download
    \/ Stage
    \/ Submit
    \/ PollLoopTop
    \/ CheckStatus
    \/ FetchResult
    \/ Upload
    \/ Link

Spec == Init /\ [][Next]_vars

TypeOK ==
    /\ pc \in {"request", "responded", "list", "download", "stage", "submit", "loop",
               "check", "fetch", "upload", "link", "returned"}
    /\ caller \in {"none", "endpoint", "direct"}
    /\ idx \in 0..Len(files)
    /\ now >= startTime

-----------------------------------------------------------------------------
(* Two requests served at once.  Every name the functions assign is a local  *)
(* of the call (no function of app.py has a global statement), so each       *)
(* request has its own record in runs; the two globals are only read.        *)

\* session handles an importer of the module may pass to the orchestrator
CallerHandles == {"client:A", "client:B"}

\* time.time() - start_time as read at line 451 by a thread that shares the
\* processor: within the budget, or past it
ElapsedReadings == {SleepSeconds, timeout_seconds + 1}

\* the answers of the two backends followed while two requests are served
FoldersAtOnce ==
    { <<Item("file", "1", A_pdf)>>,
      <<Item("file", "1", A_pdf), Item("file", "2", B_pdf), Item("file", "9", Notes_txt)>> }
PollAnswersAtOnce == {"working", "success", "failed"}
UploadAnswersAtOnce == {"f100"}
LinkAnswersAtOnce == {"https://box.com/s/x", None}

\* one answer of the environment to a call of a request
Answer(call, val, items, at) == [call |-> call, val |-> val, items |-> items, at |-> at]

\* SessionOf reading a handle kept process-wide by the first request
SessionOf_FirstRequest(rs, r) == rs["r1"].client

\* lines 416, 427, 472, 479: the storage helpers are passed the parameter
\* box_client of the orchestrator call they run in
SessionOf(rs, r) == rs[r].client

\* Apply, for the locals of one request
Applied(run, step) ==
    [run EXCEPT !.pc = step.pc,
                !.result = IF step.pc = "returned" THEN step.out ELSE @,
                !.rendered = IF step.pc = "returned" /\ run.caller = "endpoint"
                             THEN RenderOutcome(step.out.success, step.out.message,
                                                step.out.link)
                             ELSE @]

\* a step of request r: its locals change, nothing else does
Served(r, run) ==
    /\ runs' = [runs EXCEPT ![r] = run]
    /\ UNCHANGED <<jwtConfig, apiKeyGlobal, atLoad, runVars>>

\* POST /merge-pdfs, lines 506-528
ReqEndpoint(r) ==
    /\ runs[r].pc = "request"
    /\ \E fid \in {"", "123"}, name \in {Out_pdf, Out_txt}, jwtAuthOk \in BOOLEAN :
          LET err == RequestError(fid, name, jwtConfig, apiKeyGlobal)
              init == InitializeBoxClient(jwtConfig, jwtAuthOk)
              entered == [runs[r] EXCEPT !.folderId = fid, !.outName = name,
                                         !.caller = "endpoint"]
              answered == [entered EXCEPT
                              !.trace = Append(@, Answer("auth",
                                           IF jwtAuthOk THEN "ok" ELSE "raised", <<>>, 0))]
          IN Served(r,
                IF err # ""
                THEN [entered EXCEPT !.pc = "responded", !.rendered = Render(err, None)]
                ELSE IF ~init.ok
                THEN [answered EXCEPT !.pc = "responded",
                                      !.rendered = Render(MsgInitFailed(init.error), None)]
                ELSE [answered EXCEPT !.pc = "list", !.client = init.handle,
                                      !.apiKey = apiKeyGlobal])

\* merge_box_pdfs_backend_logic invoked with a session handle by an importer
\* of the module, in the process whose two secrets loaded
ReqDirect(r) ==
    /\ runs[r].pc = "request"
    /\ jwtConfig = Descriptor("ok", "E1", None)
    /\ apiKeyGlobal = "key-1"
    /\ \E key \in {None, "key-2"}, handle \in CallerHandles :
          Served(r, [runs[r] EXCEPT !.caller = "direct", !.apiKey = key,
                                    !.client = handle, !.folderId = "123",
                                    !.outName = Out_pdf, !.pc = "list"])

\* line 416: list_pdf_files_in_box_folder, then lines 417-423
ReqList(r) ==
    /\ runs[r].pc = "list"
    /\ \E raised \in BOOLEAN, items \in FoldersAtOnce :
          LET fs == IF raised THEN <<>> ELSE ListPdfFiles(items)
              step == IF raised THEN OnException("Box listing failed")
                      ELSE AfterListing(fs)
              run == [runs[r] EXCEPT
                         !.files = fs,
                         !.idx = IF step.pc = "download" THEN 1 ELSE @,
                         !.urls = <<>>,
                         !.used = @ \cup {SessionOf(runs, r)},
                         !.trace = Append(@, Answer("list",
                                      IF raised THEN "raised" ELSE "ok",
                                      IF raised THEN <<>> ELSE items, 0))]
          IN Served(r, Applied(run, step))

\* line 427: download_box_file; a failure is caught at line 433
ReqDownload(r) ==
    /\ runs[r].pc = "download"
    /\ \E ok \in BOOLEAN :
          LET step == IF ok THEN Goto("stage")
                      ELSE AfterFile(runs[r].idx, Len(runs[r].files), runs[r].urls)
              run == [runs[r] EXCEPT
                         !.idx = IF ~ok /\ step.pc = "download" THEN @ + 1 ELSE @,
                         !.used = @ \cup {SessionOf(runs, r)},
                         !.trace = Append(@, Answer("download",
                                      IF ok THEN "ok" ELSE "raised", <<>>, 0))]
          IN Served(r, Applied(run, step))

\* line 428: upload_file_to_pdf_co, then lines 429-438
ReqStage(r) ==
    /\ runs[r].pc = "stage"
    /\ \E resp \in {Raised, "", StagedUrl(runs[r].files[runs[r].idx])} :
          LET got == StageResult(runs[r].apiKey, resp)
              us == IF got = Raised THEN runs[r].urls ELSE AppendStaged(runs[r].urls, got)
              step == AfterFile(runs[r].idx, Len(runs[r].files), us)
              run == [runs[r] EXCEPT
                         !.urls = us,
                         !.idx = IF step.pc = "download" THEN @ + 1 ELSE @,
                         !.trace = Append(@, Answer("stage", resp, <<>>, 0))]
          IN Served(r, Applied(run, step))

\* line 440: merge_pdfs_pdf_co, then lines 441-448
ReqSubmit(r) ==
    /\ runs[r].pc = "submit"
    /\ \E resp \in JobIds \cup {Raised} :
          LET got == IF Falsy(runs[r].apiKey) THEN Raised ELSE resp
              step == IF got = Raised THEN OnException("PDF.co merge initiation error")
                      ELSE AfterSubmit(got)
              run == [runs[r] EXCEPT
                         !.jobId = IF got = Raised THEN @ ELSE got,
                         !.status = IF step.pc = "loop" THEN "working" ELSE @,
                         !.trace = Append(@, Answer("submit", resp, <<>>, 0))]
          IN Served(r, Applied(run, step))

\* lines 450-453: the budget test on the clock reading, then time.sleep(5)
ReqLoopTop(r) ==
    /\ runs[r].pc = "loop"
    /\ \E elapsed \in ElapsedReadings :
          /\ TimedOut(elapsed, 0) \/ runs[r].checks < MaxChecksEach
          /\ LET run == [runs[r] EXCEPT
                            !.trace = Append(@, Answer("clock", "", <<>>, elapsed))]
             IN Served(r, Applied(run, LoopTop(elapsed, 0)))

\* line 454: check_pdf_co_job_status, then lines 455-463
ReqCheckStatus(r) ==
    /\ runs[r].pc = "check"
    /\ \E resp \in PollAnswersAtOnce \cup {Raised} :
          LET got == IF Falsy(runs[r].apiKey) THEN Raised ELSE resp
              step == IF got = Raised THEN OnException("PDF.co job status check failed")
                      ELSE AfterCheck(got)
              run == [runs[r] EXCEPT
                         !.status = IF got = Raised THEN @ ELSE got,
                         !.checks = @ + 1,
                         !.trace = Append(@, Answer("poll", resp, <<>>, 0))]
          IN Served(r, Applied(run, step))

\* lines 466-468: requests.get(result url) and raise_for_status
ReqFetch(r) ==
    /\ runs[r].pc = "fetch"
    /\ \E ok \in BOOLEAN :
          LET run == [runs[r] EXCEPT
                         !.trace = Append(@, Answer("fetch",
                                      IF ok THEN "ok" ELSE "raised", <<>>, 0))]
          IN Served(r, Applied(run, FetchStep(ok)))

\* line 472: upload_file_to_box (re-raises at line 285), then line 474
ReqUpload(r) ==
    /\ runs[r].pc = "upload"
    /\ \E resp \in UploadAnswersAtOnce \cup {Raised} :
          LET run == [runs[r] EXCEPT
                         !.uploadedId = IF resp = Raised THEN @ ELSE resp,
                         !.used = @ \cup {SessionOf(runs, r)},
                         !.trace = Append(@, Answer("upload", resp, <<>>, 0))]
          IN Served(r, Applied(run, UploadStep(resp = Raised, resp)))

\* line 479: create_box_shared_link, then lines 481-484
ReqLink(r) ==
    /\ runs[r].pc = "link"
    /\ \E resp \in LinkAnswersAtOnce \cup {Raised} :
          LET run == [runs[r] EXCEPT
                         !.used = @ \cup {SessionOf(runs, r)},
                         !.trace = Append(@, Answer("link", resp, <<>>, 0))]
          IN Served(r, Applied(run, LinkStep(resp = Raised, resp)))

NextAtOnce ==
    \E r \in Requests :
       \/ ReqEndpoint(r)
       \/ ReqDirect(r)
       \/ ReqList(r)
       \/ ReqDownload(r)
       \/ ReqStage(r)
       \/ ReqSubmit(r)
       \/ ReqLoopTop(r)
       \/ ReqCheckStatus(r)
       \/ ReqFetch(r)
       \/ ReqUpload(r)
       \/ ReqLink(r)

\* both requests are served by interleaved steps, in any order
SpecAtOnce == Init /\ [][NextAtOnce]_vars

-----------------------------------------------------------------------------
(* Properties *)

ConversionCalls == {"stage", "submit", "poll", "fetch"}

\* C1: a run whose listing returned fewer than 2 PDF files has returned a
\* failure, and made no conversion-service call (stage, submit_merge,
\* poll_status, result fetch).
C1_FewerThanTwoFails ==
    (hist.listed = "returned" /\ Len(files) < 2) =>
        /\ pc = "returned"
        /\ ~result.success
        /\ result.message \in
              { "No PDF files found in the specified Box folder or an error occurred during listing.",
                "Less than two PDF files found. At least two PDFs are required for merging." }
        /\ result.link = None
        /\ \A c \in ConversionCalls : calls[c] = 0

\* a folder with the single PDF a.pdf was listed and the run has returned
C1_Witness ==
    /\ pc = "returned"
    /\ hist.listed = "returned"
    /\ Len(files) = 1
    /\ calls["list"] = 1

\* ids of the listed files, in listing order
ListedIds == [i \in 1..Len(files) |-> files[i].id]

\* the run is past the preparation loop
PreparationOver ==
    /\ hist.listed = "returned"
    /\ Len(files) >= 2
    /\ pc \notin {"download", "stage"}

\* C2: no download or staging failure ends the run during preparation: once
\* the run is past preparation every listed file was attempted, and the run
\* failed at the end of preparation exactly when no URL was staged.
C2_PerFileFailureSkips ==
    /\ (pc \in {"download", "stage"} => result = NoOutcome)
    /\ PreparationOver =>
          /\ hist.downloads = ListedIds
          /\ Len(urls) + hist.skipped = Len(files)
          /\ (urls = <<>>) <=>
                (/\ pc = "returned"
                 /\ calls["submit"] = 0
                 /\ ~result.success
                 /\ result.message = "No PDF files were successfully prepared for merging with PDF.co.")
          /\ (urls # <<>>) => (pc = "submit" \/ calls["submit"] = 1)

\* one file was skipped, the other staged, and the run goes on to submit
C2_Witness ==
    /\ pc = "submit"
    /\ hist.skipped = 1
    /\ Len(files) = 2
    /\ Len(urls) = 1

\* C3 (as claimed): when shared-link creation returned no URL after the
\* upload, the outcome is success = true with link = None and the
\* missing-link message.
C3_NoLinkIsDegradedSuccess ==
    (pc = "returned" /\ calls["upload"] = 1 /\ calls["link"] = 1 /\ hist.linkReturned = None) =>
        /\ result.success
        /\ result.link = None
        /\ result.message = MsgNoLink

\* polling was entered and every status check so far answered "working"
OnlyWorking == status = "working" /\ hist.lastPoll # Raised

\* the checks a 300-unit budget leaves room for when each iteration sleeps 5
MaxChecks == timeout_seconds \div SleepSeconds + 1

\* C4: while the job only ever answers "working" the loop is bounded: at most
\* MaxChecks status checks are made, after that many the budget test fires,
\* the run returns the "timed out" failure, and nothing is fetched, uploaded
\* or linked.
C4_WorkingForeverTimesOut ==
    OnlyWorking =>
        /\ pc \in {"loop", "check", "returned"}
        /\ calls["poll"] <= MaxChecks
        /\ calls["poll"] = hist.working
        /\ now - startTime >= SleepSeconds * hist.sleeps
        /\ (pc = "loop" /\ calls["poll"] = MaxChecks) => now - startTime > timeout_seconds
        /\ (pc = "returned") =>
              /\ result = [success |-> FALSE,
                           message |-> "PDF.co merge job timed out. Please try again.",
                           link |-> None]
              /\ now - startTime > timeout_seconds
        /\ calls["fetch"] = 0 /\ calls["upload"] = 0 /\ calls["link"] = 0

\* the job answered "working" to every one of MaxChecks checks and the run
\* returned the timeout
C4_Witness ==
    /\ pc = "returned"
    /\ OnlyWorking
    /\ calls["poll"] = MaxChecks
    /\ hist.working = MaxChecks
    /\ result.message = MsgTimedOut

\* C5: when the first status that is not "working" is "success", at check
\* number k, exactly k checks were made, each after one sleep, and the run
\* went on to fetch the result; no check follows the success.
C5_SuccessAfterKPolls ==
    (hist.lastPoll = "success") =>
        /\ status = "success"
        /\ calls["poll"] = hist.working + 1
        /\ hist.sleeps = calls["poll"]
        /\ pc \in {"fetch", "upload", "link", "returned"}
        /\ (pc = "fetch") <=> (calls["fetch"] = 0)
        /\ calls["fetch"] <= 1

\* statuses working, working, success: three checks, three sleeps, and a
\* successful outcome
C5_Witness ==
    /\ pc = "returned"
    /\ result.success
    /\ hist.lastPoll = "success"
    /\ calls["poll"] = 3
    /\ hist.working = 2
    /\ hist.sleeps = 3

\* C6: a status check answering "failed" or "aborted" ends the run at once
\* with a failure naming that status; no status check follows it and nothing
\* is fetched, uploaded or linked.
C6_FailedOrAbortedFailsAtOnce ==
    (hist.lastPoll \in {"failed", "aborted"}) =>
        /\ pc = "returned"
        /\ ~result.success
        /\ result.link = None
        /\ result.message = IF hist.lastPoll = "failed"
                            THEN "PDF.co merge job failed."
                            ELSE "PDF.co merge job aborted."
        /\ calls["poll"] = hist.working + 1
        /\ calls["fetch"] = 0 /\ calls["upload"] = 0 /\ calls["link"] = 0

\* the job answered working, then aborted
C6_Witness ==
    /\ pc = "returned"
    /\ hist.lastPoll = "aborted"
    /\ hist.working = 1
    /\ calls["poll"] = 2

\* C7: when at least 2 PDFs were listed, a file staged, the job reached
\* "success" and fetch, upload and link creation succeeded, the run returns
\* success with a message and the very URL the backend returned for the file
\* this run uploaded.
C7_SuccessReturnsBackendLink ==
    (/\ pc = "returned"
     /\ hist.listed = "returned" /\ Len(files) >= 2
     /\ urls # <<>>
     /\ hist.lastPoll = "success"
     /\ calls["fetch"] = 1
     /\ uploadedId \in UploadedIds
     /\ hist.linkReturned \in SharedLinks) =>
        /\ result.success
        /\ result.message # ""
        /\ result.link = hist.linkReturned
        /\ hist.linkTarget = uploadedId
        /\ hist.submitted = urls

\* a full successful run over two staged files
C7_Witness ==
    /\ pc = "returned"
    /\ result.success
    /\ Len(urls) = 2
    /\ uploadedId = "f200"
    /\ hist.linkTarget = "f200"
    /\ result.link = "https://box.com/s/y"

\* the last four characters are ".pdf" in any mix of cases
HasPdfSuffix(name) ==
    /\ Len(name) >= 4
    /\ name[Len(name) - 3] = "."
    /\ name[Len(name) - 2] \in {"p", "P"}
    /\ name[Len(name) - 1] \in {"d", "D"}
    /\ name[Len(name)] \in {"f", "F"}

\* a folder id was given, the output name ends in .pdf and both secrets are
\* loaded and non-empty
RequestAcceptable ==
    /\ folderId \notin {None, ""}
    /\ HasPdfSuffix(outName)
    /\ ~jwtConfig.isNone /\ ~jwtConfig.empty
    /\ apiKeyGlobal \notin {None, ""}

\* C8: a merge request reaches authentication, the orchestrator or any remote
\* call only if the folder id is non-empty, the output name ends in .pdf and
\* both secrets were loaded; otherwise it has been answered with an error
\* message, without a link and without any call.
C8_InvalidRequestFailsFast ==
    (caller = "endpoint") =>
        /\ (calls["auth"] > 0 \/ client # None \/ pc \notin {"request", "responded"})
              => RequestAcceptable
        /\ ~RequestAcceptable =>
              /\ pc = "responded"
              /\ rendered.message \in
                    { "Error: Box Folder ID is required.",
                      "Error: Merged file name must end with .pdf",
                      MsgNoJwt, MsgNoKey }
              /\ rendered.link = None
              /\ \A c \in CallNames : calls[c] = 0
              /\ client = None
              /\ result = NoOutcome

\* a request with a folder id, the name o.PDF and a loaded descriptor, in a
\* process whose API key is the empty string, was answered with the
\* configuration error
C8_Witness ==
    /\ caller = "endpoint"
    /\ pc = "responded"
    /\ folderId = "123"
    /\ outName = Out_PDF
    /\ TruthyConfig(jwtConfig)
    /\ apiKeyGlobal = ""
    /\ rendered.message = MsgNoKey
    /\ calls["auth"] = 0

InProgress == {"list", "download", "stage", "submit", "loop", "check", "fetch",
               "upload", "link"}

\* C9: the orchestrator ends only by returning, and what it returns is a
\* complete triple: a non-empty message, with a link exactly when success is
\* true; nothing is set before the return, and no exception leaves the
\* function.
C9_OutcomeIsComplete ==
    /\ (pc # "returned") => result = NoOutcome
    /\ (calls["list"] >= 1) => pc \in InProgress \cup {"returned"}
    /\ (pc = "returned") =>
          /\ result.success \in BOOLEAN
          /\ result.message # "" /\ result.message # None
          /\ result.success => result.link \in SharedLinks
          /\ ~result.success => result.link = None

\* the storage upload raised and the run returned the failure built by the
\* handler of line 488
C9_Witness ==
    /\ pc = "returned"
    /\ calls["upload"] = 1
    /\ uploadedId = None
    /\ result = [success |-> FALSE,
                 message |-> "An error occurred during the process: Box upload failed",
                 link |-> None]

\* C10 (as claimed): with a well-formed descriptor holding an enterprise or a
\* user subject, and key material that is accepted, initialize_box_client
\* returns a session handle and the request goes on to the orchestrator with
\* that handle.
C10_AuthenticateYieldsHandle ==
    (/\ caller = "endpoint"
     /\ calls["auth"] = 1
     /\ jwtConfig.settings = "ok"
     /\ (~Falsy(jwtConfig.enterpriseID) \/ ~Falsy(jwtConfig.userID))
     /\ hist.authAccepted) =>
        /\ client # None
        /\ pc # "responded"
        /\ apiKey = apiKeyGlobal

\* C11: with a descriptor holding neither an enterprise nor a user subject
\* (absent or empty), initialize_box_client raises before any JWTAuth object
\* is constructed, and the request is answered with the initialization-failure
\* message without the orchestrator being invoked.
C11_NoSubjectFailsBeforeAuth ==
    (/\ caller = "endpoint"
     /\ calls["auth"] = 1
     /\ jwtConfig.enterpriseID \in {None, ""}
     /\ jwtConfig.userID \in {None, ""}) =>
        /\ calls["jwtauth"] = 0
        /\ pc = "responded"
        /\ client = None
        /\ calls["list"] = 0
        /\ result = NoOutcome
        /\ rendered.link = None
        /\ (jwtConfig.settings = "ok") =>
              rendered.message = "Error: Box client initialization failed: Neither 'enterpriseID' nor 'userID' found in BOX_JWT_CONFIG. Cannot determine authentication type."

\* a valid request in a process whose descriptor has both subjects empty
C11_Witness ==
    /\ caller = "endpoint"
    /\ pc = "responded"
    /\ calls["auth"] = 1
    /\ jwtConfig = Descriptor("ok", "", "")
    /\ calls["jwtauth"] = 0

\* C12: a shared link is requested only after the storage upload of this run
\* returned a file, and for the id of that file; no link is requested after a
\* failed or absent upload.
C12_LinkOnlyAfterUpload ==
    /\ (pc = "link" \/ calls["link"] >= 1) =>
          /\ calls["upload"] = 1
          /\ uploadedId \in UploadedIds
    /\ (calls["link"] >= 1) => hist.linkTarget = uploadedId
    /\ (calls["link"] = 0) => hist.linkTarget = None
    /\ (uploadedId = None) => (pc # "link" /\ calls["link"] = 0)

\* the link was requested for the file f100 this run uploaded
C12_Witness ==
    /\ calls["upload"] = 1
    /\ calls["link"] = 1
    /\ uploadedId = "f100"
    /\ hist.linkTarget = "f100"

\* C13: submit_merge is only called with a non-empty list of staged URLs
\* (one URL is enough) in a run whose listing returned at least 2 PDF files,
\* and no download or conversion-service call precedes the count test.
C13_SubmitNeedsUrlsAndTwoFiles ==
    /\ (pc = "submit" \/ calls["submit"] >= 1) =>
          /\ urls # <<>>
          /\ hist.listed = "returned"
          /\ Len(files) >= 2
    /\ (calls["submit"] >= 1) => (hist.submitted = urls /\ Len(hist.submitted) >= 1)
    /\ (calls["submit"] = 0) => hist.submitted = <<>>
    /\ (calls["download"] >= 1 \/ \E c \in ConversionCalls : calls[c] >= 1) =>
          /\ hist.listed = "returned"
          /\ Len(files) >= 2

\* submit_merge was called with the single URL left after one file was skipped
C13_Witness ==
    /\ calls["submit"] = 1
    /\ Len(files) = 2
    /\ hist.skipped = 1
    /\ Len(hist.submitted) = 1

\* C14 (as claimed): when the storage upload of the merged bytes raises, the
\* run ends in a failure with the "Failed to upload merged PDF back to Box."
\* message and no shared link is requested.
C14_UploadFailureMessage ==
    (pc = "returned" /\ calls["upload"] = 1 /\ uploadedId = None) =>
        /\ ~result.success
        /\ result.message = "Failed to upload merged PDF back to Box."
        /\ result.link = None
        /\ calls["link"] = 0

\* C15: an error raised while the shared link is created ends the run with
\* the outcome of the "no link returned" case (merge and upload reported
\* done, no link), never with the outcome of the handler of line 488.
C15_LinkErrorIsNoLink ==
    (calls["link"] = 1 /\ hist.linkReturned \in {Raised, None}) =>
        /\ pc = "returned"
        /\ result = AfterLink(None).out
        /\ result.message = "PDFs merged and uploaded to Box, but failed to create a shareable link for '<merged_file_name>'. Check your Box folder!"
        /\ result.link = None

\* the link request raised
C15_Witness ==
    /\ pc = "returned"
    /\ calls["link"] = 1
    /\ hist.linkReturned = Raised
    /\ uploadedId = "f100"

\* C16: the result is fetched, uploaded and linked only after a status check
\* that answered "success"; any other answer that is not "working" (failed,
\* aborted, no status, an unknown status) ends polling with a failure.
C16_OnlySuccessProceeds ==
    /\ (pc \in {"fetch", "upload", "link"}
        \/ calls["fetch"] >= 1 \/ calls["upload"] >= 1 \/ calls["link"] >= 1) =>
          /\ hist.lastPoll = "success"
          /\ status = "success"
    /\ (calls["poll"] >= 1 /\ hist.lastPoll \in {"failed", "aborted", None, "unknown"}) =>
          /\ pc = "returned"
          /\ ~result.success
          /\ result.message # ""
          /\ result.link = None
          /\ calls["poll"] = hist.working + 1
          /\ calls["fetch"] = 0 /\ calls["upload"] = 0 /\ calls["link"] = 0

\* the job answered working, then a status the code does not know
C16_Witness ==
    /\ pc = "returned"
    /\ calls["poll"] = 2
    /\ hist.lastPoll = "unknown"
    /\ result.message = MsgNotSuccessful

\* C17 (as claimed): no status check is issued, and no run is still
\* polling, more than 300 time-units after the job was submitted.
C17_CeilingFromSubmission ==
    /\ (calls["poll"] >= 1) => hist.pollAt - startTime <= timeout_seconds
    /\ (pc \in {"loop", "check"}) => now - startTime <= timeout_seconds

\* C17 (amended): the budget runs from start_time, taken when submit_merge
\* has returned, and is tested only before a sleep: no sleep begins more than
\* 300 time-units after start_time, so a status check is issued at most one
\* 5-unit sleep after the 300 mark.
C17_BudgetTestedBeforeSleep ==
    /\ (pc = "check") => (now - SleepSeconds) - startTime <= timeout_seconds
    /\ (calls["poll"] >= 1) =>
          /\ (hist.pollAt - SleepSeconds) - startTime <= timeout_seconds
          /\ hist.pollAt - startTime <= timeout_seconds + SleepSeconds

\* a status check issued 305 time-units after start_time
C17_Witness ==
    /\ calls["poll"] >= 1
    /\ hist.pollAt - startTime = timeout_seconds + SleepSeconds
    /\ hist.sleeps = MaxChecks

NoRepeats(seq) == \A i, j \in 1..Len(seq) : seq[i] = seq[j] => i = j

\* C18: nothing is retried: each listed file is downloaded at most once and
\* staged at most once, and listing, submit_merge, the result fetch, the
\* storage upload and the link request are each made at most once; only the
\* status check is repeated.
C18_NoRetries ==
    /\ \A c \in {"auth", "list", "submit", "fetch", "upload", "link"} : calls[c] <= 1
    /\ calls["download"] = Len(hist.downloads)
    /\ calls["stage"] = Len(hist.stages)
    /\ NoRepeats(hist.downloads)
    /\ NoRepeats(hist.stages)
    /\ calls["download"] <= Len(files)
    /\ calls["stage"] <= Len(files)

\* a run with a skipped file, three status checks and a failed fetch
C18_Witness ==
    /\ pc = "returned"
    /\ hist.skipped = 1
    /\ calls["poll"] = 3
    /\ hist.fetched = "raised"
    /\ calls["fetch"] = 1
    /\ calls["submit"] = 1

RECURSIVE IsSubsequence(_, _)
\* a can be obtained from b by deleting elements
IsSubsequence(a, b) ==
    IF a = <<>> THEN TRUE
    ELSE IF b = <<>> THEN FALSE
    ELSE IF Head(a) = Head(b) THEN IsSubsequence(Tail(a), Tail(b))
    ELSE IsSubsequence(a, Tail(b))

\* the staged URL of each id of a sequence of ids
UrlsOfIds(ids) == [i \in 1..Len(ids) |-> "https://pdf.co/tmp/" \o ids[i]]

\* C19: preparation goes through the listed files one at a time in listing
\* order: the downloads made so far are a prefix of the listing, a file is
\* downloaded only when every file before it has been staged or skipped, a
\* file is staged only after its own download succeeded, and the URLs handed
\* to submit_merge are those of staged files, in listing order.
C19_SequentialInListingOrder ==
    /\ Len(hist.downloads) <= Len(files)
    /\ hist.downloads = SubSeq(ListedIds, 1, Len(hist.downloads))
    /\ IsSubsequence(hist.stages, hist.downloads)
    /\ \A i \in 1..Len(hist.stages), j \in 1..Len(hist.failedDownloads) :
          hist.stages[i] # hist.failedDownloads[j]
    /\ (pc = "download") =>
          /\ Len(hist.downloads) = idx - 1
          /\ Len(hist.stages) + Len(hist.failedDownloads) = idx - 1
          /\ Len(urls) + hist.skipped = idx - 1
    /\ (pc = "stage") =>
          /\ Len(hist.downloads) = idx
          /\ hist.downloads[idx] = files[idx].id
          /\ Len(hist.stages) + Len(hist.failedDownloads) = idx - 1
    /\ IsSubsequence(urls, UrlsOfIds(hist.stages))
    /\ IsSubsequence(urls, UrlsOfIds(ListedIds))
    /\ (calls["submit"] >= 1) => hist.submitted = urls

\* both files of [a.pdf, b.pdf, n.txt] were staged and submitted in order
C19_Witness ==
    /\ calls["submit"] = 1
    /\ hist.downloads = <<"1", "2">>
    /\ hist.stages = <<"1", "2">>
    /\ hist.submitted = <<"https://pdf.co/tmp/1", "https://pdf.co/tmp/2">>

\* C20: when the fetch of the merged bytes fails, the run returns a failure
\* whose message carries the transport error; the fetch is not repeated and
\* nothing is uploaded or linked.
C20_FetchFailureIsFatal ==
    (hist.fetched = "raised") =>
        /\ pc = "returned"
        /\ result = [success |-> FALSE,
                     message |-> "An error occurred during the process: merged PDF download failed",
                     link |-> None]
        /\ calls["fetch"] = 1
        /\ calls["upload"] = 0
        /\ calls["link"] = 0
        /\ uploadedId = None

\* the job succeeded and the fetch of its result raised
C20_Witness ==
    /\ pc = "returned"
    /\ hist.lastPoll = "success"
    /\ hist.fetched = "raised"


\* positions of the listing that hold a file whose name ends in .pdf, in any
\* mix of cases
PdfPositions(items) ==
    {i \in 1..Len(items) : items[i].type = "file" /\ HasPdfSuffix(items[i].name)}

\* the k-th smallest element of a set of positions
NthPosition(ps, k) == CHOOSE i \in ps : Cardinality({j \in ps : j <= i}) = k

\* C21: a listing that returned holds exactly the children yielded by the
\* backend whose type is "file" and whose name ends in .pdf compared without
\* regard to case, each as {id, name}, in the backend's order; folders and
\* other files are absent.  A listing that raised has ended the run with the
\* error, not with the outcome of an empty folder.
C21_ListingIsFilteredInOrder ==
    /\ (hist.listed = "returned") =>
          LET ps == PdfPositions(hist.items)
          IN /\ Len(files) = Cardinality(ps)
             /\ \A k \in 1..Len(files) :
                   files[k] = [id |-> hist.items[NthPosition(ps, k)].id,
                               name |-> hist.items[NthPosition(ps, k)].name]
    /\ (hist.listed = "raised") =>
          /\ pc = "returned"
          /\ ~result.success
          /\ result.message = "An error occurred during the process: Box listing failed"
          /\ result.message # MsgNoPdfs
          /\ result.link = None
          /\ calls["download"] = 0

\* the folder [c.PDF, folder a.pdf, pdf.b, d.Pdf] was listed as c.PDF, d.Pdf
C21_Witness ==
    /\ hist.listed = "returned"
    /\ Len(hist.items) = 4
    /\ hist.items[2].type = "folder"
    /\ files = <<[id |-> "3", name |-> C_PDF], [id |-> "4", name |-> D_Pdf]>>


\* the arguments a request was entered with
InputsOf(run) == <<run.caller, run.folderId, run.outName, run.apiKey, run.client>>

C23_TimeoutNeverOverridesStatus ==
    /\ (pc = "loop") => status = "working"
    /\ (pc = "returned" /\ result.message = MsgTimedOut) =>
          /\ status = "working"
          /\ hist.lastPoll \in {None, "working"}
          /\ (calls["poll"] >= 1) => hist.lastPoll = "working"
          /\ now - startTime > timeout_seconds
    /\ (hist.lastPoll = "success") =>
          /\ pc \in {"fetch", "upload", "link", "returned"}
          /\ (pc = "fetch") => calls["fetch"] = 0
          /\ (pc = "returned") =>
                /\ calls["fetch"] = 1
                /\ result.message # MsgTimedOut
    /\ (hist.lastPoll \in {"failed", "aborted"}) =>
          /\ pc = "returned"
          /\ result = [success |-> FALSE,
                       message |-> "PDF.co merge job " \o hist.lastPoll \o ".",
                       link |-> None]

\* the check issued past the budget (305 after start_time) answered "success"
\* and the run went on to return the merged file's link
C23_Witness ==
    /\ hist.lastPoll = "success"
    /\ hist.pollAt - startTime > timeout_seconds
    /\ pc = "returned"
    /\ result.success
    /\ result.link = "https://box.com/s/x"

====
